---- MODULE Spec2Model ----
(***************************************************************************)
(* The friend-relationship subsystem of DailyVerse: FriendService          *)
(* (internal/services/friend_service.go) over the Firestore friend store   *)
(* (internal/repositories/firestore_friend_repository.go) and the user     *)
(* directory (internal/repositories/firestore_user_repository.go).         *)
(*                                                                         *)
(* Go strings are sequences of one-character strings, so that ToLower, the *)
(* e-mail regular expression and the "<sender>_<recipient>" document id    *)
(* are computed the way the code computes them.                            *)
(***************************************************************************)
EXTENDS Integers, Sequences, FiniteSets, Bags, TLC

\* Number of registered users in the directory.
NumUsers == 3

\* Most documents the "friends" collection holds in the model.
MaxRecords == 3
\* requests the server handles side by side
MaxInFlight == 2
\* calls started in a run of side-by-side requests
MaxCalls == 3

UserIds == 1..NumUsers

LowerLetters == <<"a", "b", "c", "d", "e", "f", "g", "h">>
UpperLetters == <<"A", "B", "C", "D", "E", "F", "G", "H">>
Digits == {"0", "1", "2", "3", "4", "5", "6", "7", "8", "9"}
Letters == {LowerLetters[i] : i \in DOMAIN LowerLetters} \cup {UpperLetters[i] : i \in DOMAIN UpperLetters} \cup {"x", "z"}

\* strings.ToLower, one character
LowerChar(c) ==
    IF \E i \in DOMAIN UpperLetters : UpperLetters[i] = c
    THEN LowerLetters[CHOOSE i \in DOMAIN UpperLetters : UpperLetters[i] = c]
    ELSE c

\* strings.ToLower
ToLower(s) == [i \in DOMAIN s |-> LowerChar(s[i])]

\* character classes of the regular expression of utils.IsValidEmail (the
\* backquote of the local part's class cannot be written in a TLA+ string
\* and is in no identifier of the model)
EmailLocalChars == Letters \cup Digits \cup {".", "!", "#", "$", "%", "&", "'", "*", "+", "/", "=", "?", "^", "_", "{", "|", "}", "~", "-"}
EmailDomainChars == Letters \cup Digits \cup {"-"}

\* [a-zA-Z0-9-]+(?:\.[a-zA-Z0-9-]+)*
IsEmailDomain(d) ==
    /\ Len(d) > 0
    /\ \A i \in 1..Len(d) : d[i] \in EmailDomainChars \cup {"."}
    /\ d[1] # "."
    /\ d[Len(d)] # "."
    /\ \A i \in 1..(Len(d) - 1) : ~(d[i] = "." /\ d[i + 1] = ".")

\* utils.IsValidEmail: ^[local]+@[domain]+(\.[domain]+)*$
IsValidEmail(email) ==
    \E k \in 1..Len(email) :
        /\ email[k] = "@"
        /\ k > 1
        /\ \A i \in 1..(k - 1) : email[i] \in EmailLocalChars
        /\ IsEmailDomain(SubSeq(email, k + 1, Len(email)))

\* models.User, the fields the friend subsystem reads
UserOf(i) ==
    [Username |-> <<UpperLetters[i]>>,
     UsernameLower |-> ToLower(<<UpperLetters[i]>>),
     Email |-> <<LowerLetters[i], "@", "x">>]

\* the "users" collection: one document per registered user, keyed by e-mail
Users == {UserOf(i) : i \in UserIds}

UserEmails == {u.Email : u \in Users}

\* the zero models.User, returned beside an error
NoUser == [Username |-> <<>>, UsernameLower |-> <<>>, Email |-> <<>>]

\* UserRepository.GetUserByEmail: the document named email, or an error
GetUserByEmail(email) ==
    IF \E u \in Users : u.Email = email
    THEN [user |-> CHOOSE u \in Users : u.Email = email, err |-> FALSE]
    ELSE [user |-> NoUser, err |-> TRUE]

\* GetUserByUsername that compares the username as stored, case and all
GetUserByUsername_CaseSensitive(username) ==
    IF \E u \in Users : u.Username = username
    THEN [user |-> CHOOSE u \in Users : u.Username = username, err |-> FALSE]
    ELSE [user |-> NoUser, err |-> TRUE]

\* UserRepository.GetUserByUsername: UsernameLower == ToLower(username), Limit(1)
GetUserByUsername(username) ==
    IF \E u \in Users : u.UsernameLower = ToLower(username)
    THEN [user |-> CHOOSE u \in Users : u.UsernameLower = ToLower(username), err |-> FALSE]
    ELSE [user |-> NoUser, err |-> TRUE]

\* the target identifiers a caller supplies: every user's address, every
\* user's handle typed in lower case, the first user's handle as stored, and
\* a handle and an address nobody has
Identifiers ==
    UserEmails
    \cup {u.UsernameLower : u \in Users}
    \cup {UserOf(1).Username}
    \cup {<<"z">>, <<"z", "@", "x">>}

\* the document id of the "friends" collection
DocID(senderEmail, recipientEmail) == senderEmail \o <<"_">> \o recipientEmail

\* models.Friend
Friend(email, friendEmail, status) ==
    [Email |-> email, FriendEmail |-> friendEmail, Status |-> status]

\* error values returned by FriendService
Nil == "nil"
ErrUserNotFound == "User not found"
ErrSelfRequest == "You cannot send a friend request to yourself"
ErrDuplicateRequest == "Friend request already exists or you are already friends"
ErrRequestNotFound == "Friend request not found"
ErrSendFailed == "Failed to send friend request"
ErrAcceptFailed == "Failed to accept friend request"
ErrRemoveFailed == "Failed to remove friend"
ErrDeclineFailed == "Failed to decline friend request"
ErrCancelFailed == "Failed to cancel friend request"

VARIABLES
    friends,    \* the "friends" collection: document id -> models.Friend
    call,       \* the last FriendService call: method, acting identity, identifier
    before,     \* status of the two documents between the parties before that call
    ret,        \* the error that call returned
    inflight,   \* the bag of calls running side by side: method, parties, position
    begun       \* how many side-by-side calls have been started

vars == <<friends, call, before, ret, inflight, begun>>

----
\* Firestore document operations on the "friends" collection

\* DocumentRef.Set(ctx, friend): writes the whole document, replacing any
StoreSet(store, id, doc) ==
    [k \in DOMAIN store \cup {id} |-> IF k = id THEN doc ELSE store[k]]

\* DocumentRef.Delete(ctx): no error when the document does not exist
StoreDelete(store, id) ==
    [k \in DOMAIN store \ {id} |-> store[k]]

\* StoreMergeStatus without the MergeAll option: the document is replaced by
\* one that holds only the status
StoreMergeStatus_NoMerge(store, id, status) ==
    StoreSet(store, id, Friend(<<>>, <<>>, status))

\* DocumentRef.Set(ctx, {"Status": s}, MergeAll): merges into the document,
\* creating one that holds only that field when none exists
StoreMergeStatus(store, id, status) ==
    IF id \in DOMAIN store
    THEN [store EXCEPT ![id].Status = status]
    ELSE StoreSet(store, id, Friend(<<>>, <<>>, status))

\* CreateFriendRequest that adds a document under a fresh id when the pair's
\* id is taken
CreateFriendRequest_AutoID(store, friend) ==
    LET id == DocID(friend.Email, friend.FriendEmail)
    IN  IF id \in DOMAIN store
        THEN StoreSet(store, <<"#">> \o id, friend)
        ELSE StoreSet(store, id, friend)

\* FirestoreFriendRepository.CreateFriendRequest
CreateFriendRequest(store, friend) ==
    StoreSet(store, DocID(friend.Email, friend.FriendEmail), friend)

\* FirestoreFriendRepository.GetFriendRequest: (nil, nil) when not found
GetFriendRequest(store, senderEmail, recipientEmail) ==
    IF DocID(senderEmail, recipientEmail) \in DOMAIN store
    THEN [found |-> TRUE, friend |-> store[DocID(senderEmail, recipientEmail)]]
    ELSE [found |-> FALSE, friend |-> Friend(<<>>, <<>>, "")]

\* FirestoreFriendRepository.UpdateFriendRequest with {"Status": status}
UpdateFriendRequest(store, senderEmail, recipientEmail, status) ==
    StoreMergeStatus(store, DocID(senderEmail, recipientEmail), status)

\* FirestoreFriendRepository.DeleteFriendRequest
DeleteFriendRequest(store, senderEmail, recipientEmail) ==
    StoreDelete(store, DocID(senderEmail, recipientEmail))

\* the order of Firestore document names: byte order of the characters
CharOrder == <<"-", ".", "0", "1", "2", "3", "4", "5", "6", "7", "8", "9", "@",
               "A", "B", "C", "D", "E", "F", "G", "H", "_",
               "a", "b", "c", "d", "e", "f", "g", "h", "x", "z">>

CharCode(c) == CHOOSE i \in DOMAIN CharOrder : CharOrder[i] = c

\* s sorts before t as a document name
NameLess(s, t) ==
    \/ /\ Len(s) < Len(t)
       /\ \A i \in 1..Len(s) : s[i] = t[i]
    \/ \E k \in 1..Len(s) :
           /\ k <= Len(t)
           /\ \A i \in 1..(k - 1) : s[i] = t[i]
           /\ CharCode(s[k]) < CharCode(t[k])

RECURSIVE SortNames(_)
\* the document names of a query result in the order the iterator yields them
SortNames(ids) ==
    IF ids = {} THEN <<>>
    ELSE LET first == CHOOSE x \in ids : \A y \in ids \ {x} : NameLess(x, y)
         IN  <<first>> \o SortNames(ids \ {first})

\* Collection("friends").Where(field, "==", value).Where("Status", "==", status).Documents
Query(store, field, value, status) ==
    LET names == SortNames({id \in DOMAIN store :
                               store[id][field] = value /\ store[id].Status = status})
    IN  [i \in DOMAIN names |-> store[names[i]]]

\* GetFriends with the second query (the user as recipient) left out
GetFriends_SenderOnly(store, userEmail) ==
    Query(store, "Email", userEmail, "accepted")

\* FirestoreFriendRepository.GetFriends: the user as sender, then as recipient
GetFriends(store, userEmail) ==
    Query(store, "Email", userEmail, "accepted") \o Query(store, "FriendEmail", userEmail, "accepted")

\* GetPendingFriendRequests that filters on the sender field
GetPendingFriendRequestsRepo_BySender(store, userEmail) ==
    Query(store, "Email", userEmail, "pending")

\* FirestoreFriendRepository.GetPendingFriendRequests
GetPendingFriendRequestsRepo(store, userEmail) ==
    Query(store, "FriendEmail", userEmail, "pending")

----
\* FriendService

\* SendFriendRequest, lines 38-47: classify the identifier, then resolve it
ResolveForSend(identifier) ==
    IF IsValidEmail(identifier)
    THEN GetUserByEmail(identifier)
    ELSE GetUserByUsername(identifier)

\* AcceptFriendRequest, lines 80-88: by username first, then by e-mail
ResolveForAccept(identifier) ==
    IF GetUserByUsername(identifier).err
    THEN GetUserByEmail(identifier)
    ELSE GetUserByUsername(identifier)

\* SendFriendRequest whose duplicate check passes over accepted records
SendFriendRequestOp_PendingOnly(store, userEmail, identifier) ==
    LET r == ResolveForSend(identifier)
        friendEmail == r.user.Email
        existing == GetFriendRequest(store, userEmail, friendEmail)
    IN  IF r.err
        THEN [ret |-> ErrUserNotFound, store |-> store]
        ELSE IF userEmail = friendEmail
        THEN [ret |-> ErrSelfRequest, store |-> store]
        ELSE IF existing.found /\ existing.friend.Status = "pending"
        THEN [ret |-> ErrDuplicateRequest, store |-> store]
        ELSE [ret |-> Nil,
              store |-> CreateFriendRequest(store, Friend(userEmail, friendEmail, "pending"))]

\* SendFriendRequest whose self check compares the identifier as typed
SendFriendRequestOp_SelfByIdentifier(store, userEmail, identifier) ==
    LET r == ResolveForSend(identifier)
        friendEmail == r.user.Email
    IN  IF r.err
        THEN [ret |-> ErrUserNotFound, store |-> store]
        ELSE IF userEmail = identifier
        THEN [ret |-> ErrSelfRequest, store |-> store]
        ELSE IF GetFriendRequest(store, userEmail, friendEmail).found
        THEN [ret |-> ErrDuplicateRequest, store |-> store]
        ELSE [ret |-> Nil,
              store |-> CreateFriendRequest(store, Friend(userEmail, friendEmail, "pending"))]

\* SendFriendRequest without the self check
SendFriendRequestOp_NoSelfCheck(store, userEmail, identifier) ==
    LET r == ResolveForSend(identifier)
        friendEmail == r.user.Email
    IN  IF r.err
        THEN [ret |-> ErrUserNotFound, store |-> store]
        ELSE IF GetFriendRequest(store, userEmail, friendEmail).found
        THEN [ret |-> ErrDuplicateRequest, store |-> store]
        ELSE [ret |-> Nil,
              store |-> CreateFriendRequest(store, Friend(userEmail, friendEmail, "pending"))]

\* SendFriendRequest whose duplicate check looks at both directions
SendFriendRequestOp_BothDirections(store, userEmail, identifier) ==
    LET r == ResolveForSend(identifier)
        friendEmail == r.user.Email
    IN  IF r.err
        THEN [ret |-> ErrUserNotFound, store |-> store]
        ELSE IF userEmail = friendEmail
        THEN [ret |-> ErrSelfRequest, store |-> store]
        ELSE IF \/ GetFriendRequest(store, userEmail, friendEmail).found
                \/ GetFriendRequest(store, friendEmail, userEmail).found
        THEN [ret |-> ErrDuplicateRequest, store |-> store]
        ELSE [ret |-> Nil,
              store |-> CreateFriendRequest(store, Friend(userEmail, friendEmail, "pending"))]

\* FriendService.SendFriendRequest: the error returned and the store left
SendFriendRequestOp(store, userEmail, identifier) ==
    LET r == ResolveForSend(identifier)
        friendEmail == r.user.Email
    IN  IF r.err
        THEN [ret |-> ErrUserNotFound, store |-> store]
        ELSE IF userEmail = friendEmail
        THEN [ret |-> ErrSelfRequest, store |-> store]
        ELSE IF GetFriendRequest(store, userEmail, friendEmail).found
        THEN [ret |-> ErrDuplicateRequest, store |-> store]
        ELSE [ret |-> Nil,
              store |-> CreateFriendRequest(store, Friend(userEmail, friendEmail, "pending"))]

\* AcceptFriendRequest without the lookup of the request
AcceptFriendRequestOp_NoLookup(store, userEmail, identifier) ==
    LET r == ResolveForAccept(identifier)
        senderEmail == r.user.Email
    IN  IF r.err
        THEN [ret |-> ErrUserNotFound, store |-> store]
        ELSE [ret |-> Nil,
              store |-> UpdateFriendRequest(store, senderEmail, userEmail, "accepted")]

\* AcceptFriendRequest that looks the request up in the direction (acting, sender)
AcceptFriendRequestOp_ReverseLookup(store, userEmail, identifier) ==
    LET r == ResolveForAccept(identifier)
        senderEmail == r.user.Email
    IN  IF r.err
        THEN [ret |-> ErrUserNotFound, store |-> store]
        ELSE IF ~GetFriendRequest(store, userEmail, senderEmail).found
        THEN [ret |-> ErrRequestNotFound, store |-> store]
        ELSE [ret |-> Nil,
              store |-> UpdateFriendRequest(store, senderEmail, userEmail, "accepted")]

\* AcceptFriendRequest that falls back to the request the acting user sent
AcceptFriendRequestOp_EitherDirection(store, userEmail, identifier) ==
    LET r == ResolveForAccept(identifier)
        senderEmail == r.user.Email
    IN  IF r.err
        THEN [ret |-> ErrUserNotFound, store |-> store]
        ELSE IF GetFriendRequest(store, senderEmail, userEmail).found
        THEN [ret |-> Nil,
              store |-> UpdateFriendRequest(store, senderEmail, userEmail, "accepted")]
        ELSE IF GetFriendRequest(store, userEmail, senderEmail).found
        THEN [ret |-> Nil,
              store |-> UpdateFriendRequest(store, userEmail, senderEmail, "accepted")]
        ELSE [ret |-> ErrRequestNotFound, store |-> store]

\* FriendService.AcceptFriendRequest
AcceptFriendRequestOp(store, userEmail, identifier) ==
    LET r == ResolveForAccept(identifier)
        senderEmail == r.user.Email
    IN  IF r.err
        THEN [ret |-> ErrUserNotFound, store |-> store]
        ELSE IF ~GetFriendRequest(store, senderEmail, userEmail).found
        THEN [ret |-> ErrRequestNotFound, store |-> store]
        ELSE [ret |-> Nil,
              store |-> UpdateFriendRequest(store, senderEmail, userEmail, "accepted")]

\* RemoveFriend that deletes only the direction (acting, friend)
RemoveFriendOp_OneDirection(store, userEmail, username) ==
    LET r == GetUserByUsername(username)
        friendEmail == r.user.Email
    IN  IF r.err
        THEN [ret |-> ErrUserNotFound, store |-> store]
        ELSE [ret |-> Nil, store |-> DeleteFriendRequest(store, userEmail, friendEmail)]

\* RemoveFriend that deletes every record the friend is a party of
RemoveFriendOp_AllOfFriend(store, userEmail, username) ==
    LET r == GetUserByUsername(username)
        friendEmail == r.user.Email
    IN  IF r.err
        THEN [ret |-> ErrUserNotFound, store |-> store]
        ELSE [ret |-> Nil,
              store |-> [id \in {k \in DOMAIN store :
                                    friendEmail \notin {store[k].Email, store[k].FriendEmail}}
                         |-> store[id]]]

\* FriendService.RemoveFriend: both directions are deleted
RemoveFriendOp(store, userEmail, username) ==
    LET r == GetUserByUsername(username)
        friendEmail == r.user.Email
    IN  IF r.err
        THEN [ret |-> ErrUserNotFound, store |-> store]
        ELSE [ret |-> Nil,
              store |-> DeleteFriendRequest(DeleteFriendRequest(store, userEmail, friendEmail),
                                            friendEmail, userEmail)]

\* DeclineFriendRequest that deletes the direction (acting, sender)
DeclineFriendRequestOp_WrongDirection(store, userEmail, username) ==
    LET r == GetUserByUsername(username)
        senderEmail == r.user.Email
    IN  IF r.err
        THEN [ret |-> ErrUserNotFound, store |-> store]
        ELSE [ret |-> Nil, store |-> DeleteFriendRequest(store, userEmail, senderEmail)]

\* DeclineFriendRequest that reports a failure when there is no request
DeclineFriendRequestOp_FailIfAbsent(store, userEmail, username) ==
    LET r == GetUserByUsername(username)
        senderEmail == r.user.Email
    IN  IF r.err
        THEN [ret |-> ErrUserNotFound, store |-> store]
        ELSE IF ~GetFriendRequest(store, senderEmail, userEmail).found
        THEN [ret |-> ErrDeclineFailed, store |-> store]
        ELSE [ret |-> Nil, store |-> DeleteFriendRequest(store, senderEmail, userEmail)]

\* FriendService.DeclineFriendRequest: deletes (sender, acting)
DeclineFriendRequestOp(store, userEmail, username) ==
    LET r == GetUserByUsername(username)
        senderEmail == r.user.Email
    IN  IF r.err
        THEN [ret |-> ErrUserNotFound, store |-> store]
        ELSE [ret |-> Nil, store |-> DeleteFriendRequest(store, senderEmail, userEmail)]

\* CancelFriendRequest that deletes the direction (recipient, acting)
CancelFriendRequestOp_WrongDirection(store, userEmail, username) ==
    LET r == GetUserByUsername(username)
        recipientEmail == r.user.Email
    IN  IF r.err
        THEN [ret |-> ErrUserNotFound, store |-> store]
        ELSE [ret |-> Nil, store |-> DeleteFriendRequest(store, recipientEmail, userEmail)]

\* FriendService.CancelFriendRequest: deletes (acting, recipient)
CancelFriendRequestOp(store, userEmail, username) ==
    LET r == GetUserByUsername(username)
        recipientEmail == r.user.Email
    IN  IF r.err
        THEN [ret |-> ErrUserNotFound, store |-> store]
        ELSE [ret |-> Nil, store |-> DeleteFriendRequest(store, userEmail, recipientEmail)]

\* GetFriendsList that takes the sender of every relation
GetFriendsList_AlwaysSender(store, userEmail) ==
    LET rel == GetFriends(store, userEmail)
        other == [i \in DOMAIN rel |-> rel[i].Email]
        Resolves(e) == ~GetUserByEmail(e).err
        kept == SelectSeq(other, Resolves)
    IN  [i \in DOMAIN kept |-> GetUserByEmail(kept[i]).user]

\* FriendService.GetFriendsList: the other party of every accepted relation,
\* skipping those whose profile does not resolve
GetFriendsList(store, userEmail) ==
    LET rel == GetFriends(store, userEmail)
        other == [i \in DOMAIN rel |->
                     IF rel[i].Email = userEmail THEN rel[i].FriendEmail ELSE rel[i].Email]
        Resolves(e) == ~GetUserByEmail(e).err
        kept == SelectSeq(other, Resolves)
    IN  [i \in DOMAIN kept |-> GetUserByEmail(kept[i]).user]

\* models.UserSummary (Country and City are not modelled)
UserSummary(user) == [Username |-> user.Username, Email |-> user.Email]

\* FriendService.GetPendingFriendRequests: the sender of every pending request
GetPendingFriendRequests(store, userEmail) ==
    LET reqs == GetPendingFriendRequestsRepo(store, userEmail)
        sender == [i \in DOMAIN reqs |-> reqs[i].Email]
        Resolves(e) == ~GetUserByEmail(e).err
        kept == SelectSeq(sender, Resolves)
    IN  [i \in DOMAIN kept |-> UserSummary(GetUserByEmail(kept[i]).user)]

----
\* FriendHandler: the HTTP status written for the error a FriendService call returned

StatusOK == 200
StatusBadRequest == 400
StatusNotFound == 404
StatusInternalServerError == 500

\* the "Failed to ..." error a FriendService method returns on a store failure
StoreFailureOf(op) ==
    CASE op = "SendFriendRequest" -> ErrSendFailed
      [] op = "AcceptFriendRequest" -> ErrAcceptFailed
      [] op = "RemoveFriend" -> ErrRemoveFailed
      [] op = "DeclineFriendRequest" -> ErrDeclineFailed
      [] op = "CancelFriendRequest" -> ErrCancelFailed

\* the status code of the handler of op when the service returned err
HTTPStatus(op, err) ==
    IF err = Nil THEN StatusOK
    ELSE CASE op = "SendFriendRequest" -> StatusBadRequest
           [] op \in {"AcceptFriendRequest", "DeclineFriendRequest"} ->
                  IF err \in {ErrUserNotFound, ErrRequestNotFound}
                  THEN StatusNotFound
                  ELSE StatusBadRequest
           [] op \in {"RemoveFriend", "CancelFriendRequest"} -> StatusInternalServerError

\* the JSON body of a request: one key with a string value
Body(key, value) == [key |-> key, value |-> value]

\* the json tag of the field the handler of op decodes the body into
BodyKeyOf(op) ==
    IF op \in {"SendFriendRequest", "AcceptFriendRequest", "DeclineFriendRequest"}
    THEN "usernameOrEmail"
    ELSE "username"

\* json.Decode into the handler's struct: a key the struct does not name is
\* dropped and the field keeps its zero value
Decode(op, body) == IF body.key = BodyKeyOf(op) THEN body.value ELSE <<>>

\* the message the handler of op writes on success
SuccessMessageOf(op) ==
    CASE op = "SendFriendRequest" -> "Friend request sent"
      [] op = "AcceptFriendRequest" -> "Friend request accepted"
      [] op = "RemoveFriend" -> "Friend removed"
      [] op = "DeclineFriendRequest" -> "Friend request declined"
      [] op = "CancelFriendRequest" -> "Friend request canceled"

ErrIdentifierRequired == "Username or Email is required"

\* the FriendService method the handler of op calls
ServiceOp(op, store, userEmail, identifier) ==
    CASE op = "SendFriendRequest" -> SendFriendRequestOp(store, userEmail, identifier)
      [] op = "AcceptFriendRequest" -> AcceptFriendRequestOp(store, userEmail, identifier)
      [] op = "RemoveFriend" -> RemoveFriendOp(store, userEmail, identifier)
      [] op = "DeclineFriendRequest" -> DeclineFriendRequestOp(store, userEmail, identifier)
      [] op = "CancelFriendRequest" -> CancelFriendRequestOp(store, userEmail, identifier)

\* FriendHandler: the handler of op called by the authenticated userEmail
\* with the given body: the status and message written and the store left
Handle(op, store, userEmail, body) ==
    LET identifier == Decode(op, body)
        out == ServiceOp(op, store, userEmail, identifier)
    IN  IF BodyKeyOf(op) = "usernameOrEmail" /\ identifier = <<>>
        THEN [status |-> StatusBadRequest, message |-> ErrIdentifierRequired, store |-> store]
        ELSE [status |-> HTTPStatus(op, out.ret),
              message |-> IF out.ret = Nil THEN SuccessMessageOf(op) ELSE out.ret,
              store |-> out.store]

----
\* the state machine: one FriendService call at a time, run to completion

\* status of a document, "absent" when there is none
StatusOf(store, id) == IF id \in DOMAIN store THEN store[id].Status ELSE "absent"

\* what the store held between the acting identity and the resolved party
\* when the call began: sent is the document (acting, party), received the
\* document (party, acting)
Before(store, userEmail, r) ==
    IF r.err
    THEN [party |-> <<>>, sent |-> "absent", received |-> "absent"]
    ELSE [party |-> r.user.Email,
          sent |-> StatusOf(store, DocID(userEmail, r.user.Email)),
          received |-> StatusOf(store, DocID(r.user.Email, userEmail))]

Call(op, userEmail, identifier) ==
    [op |-> op, userEmail |-> userEmail, identifier |-> identifier]

NoCall == Call("none", <<>>, <<>>)
NoBefore == [party |-> <<>>, sent |-> "absent", received |-> "absent"]

\* the FriendService methods that take a target identifier
Methods ==
    {"SendFriendRequest", "AcceptFriendRequest", "RemoveFriend",
     "DeclineFriendRequest", "CancelFriendRequest"}

Init ==
    /\ friends = <<>>
    /\ call = NoCall
    /\ before = NoBefore
    /\ ret = Nil
    /\ inflight = EmptyBag
    /\ begun = 0

SendFriendRequest(userEmail, identifier) ==
    LET out == SendFriendRequestOp(friends, userEmail, identifier)
    IN  /\ call = NoCall
        /\ Cardinality(DOMAIN out.store) <= MaxRecords
        /\ friends' = out.store
        /\ ret' = out.ret
        /\ call' = Call("SendFriendRequest", userEmail, identifier)
        /\ before' = Before(friends, userEmail, ResolveForSend(identifier))
        /\ UNCHANGED <<inflight, begun>>

AcceptFriendRequest(userEmail, identifier) ==
    LET out == AcceptFriendRequestOp(friends, userEmail, identifier)
    IN  /\ call = NoCall
        /\ friends' = out.store
        /\ ret' = out.ret
        /\ call' = Call("AcceptFriendRequest", userEmail, identifier)
        /\ before' = Before(friends, userEmail, ResolveForAccept(identifier))
        /\ UNCHANGED <<inflight, begun>>

RemoveFriend(userEmail, username) ==
    LET out == RemoveFriendOp(friends, userEmail, username)
    IN  /\ call = NoCall
        /\ friends' = out.store
        /\ ret' = out.ret
        /\ call' = Call("RemoveFriend", userEmail, username)
        /\ before' = Before(friends, userEmail, GetUserByUsername(username))
        /\ UNCHANGED <<inflight, begun>>

DeclineFriendRequest(userEmail, username) ==
    LET out == DeclineFriendRequestOp(friends, userEmail, username)
    IN  /\ call = NoCall
        /\ friends' = out.store
        /\ ret' = out.ret
        /\ call' = Call("DeclineFriendRequest", userEmail, username)
        /\ before' = Before(friends, userEmail, GetUserByUsername(username))
        /\ UNCHANGED <<inflight, begun>>

CancelFriendRequest(userEmail, username) ==
    LET out == CancelFriendRequestOp(friends, userEmail, username)
    IN  /\ call = NoCall
        /\ friends' = out.store
        /\ ret' = out.ret
        /\ call' = Call("CancelFriendRequest", userEmail, username)
        /\ before' = Before(friends, userEmail, GetUserByUsername(username))
        /\ UNCHANGED <<inflight, begun>>

\* the handler writes the response and the request ends; the next call may start
Respond ==
    /\ call # NoCall
    /\ call' = NoCall
    /\ before' = NoBefore
    /\ ret' = Nil
    /\ UNCHANGED <<friends, inflight, begun>>

Next ==
    \/ \E userEmail \in UserEmails, identifier \in Identifiers :
        \/ SendFriendRequest(userEmail, identifier)
        \/ AcceptFriendRequest(userEmail, identifier)
        \/ RemoveFriend(userEmail, identifier)
        \/ DeclineFriendRequest(userEmail, identifier)
        \/ CancelFriendRequest(userEmail, identifier)
    \/ Respond

Spec == Init /\ [][Next]_vars

----
\* FriendService over MockFriendRepository, the in-memory map of the tests

\* MockFriendRepository.GetFriendRequest: an error when the key is absent
MockGetFriendRequest(store, senderEmail, recipientEmail) ==
    IF DocID(senderEmail, recipientEmail) \in DOMAIN store
    THEN [friend |-> store[DocID(senderEmail, recipientEmail)], found |-> TRUE, err |-> FALSE]
    ELSE [friend |-> Friend(<<>>, <<>>, ""), found |-> FALSE, err |-> TRUE]

\* MockFriendRepository.UpdateFriendRequest: an error and no write when the
\* key is absent, otherwise the status of the stored record is set
MockUpdateFriendRequest(store, senderEmail, recipientEmail, status) ==
    IF DocID(senderEmail, recipientEmail) \in DOMAIN store
    THEN [store |-> [store EXCEPT ![DocID(senderEmail, recipientEmail)].Status = status],
          err |-> FALSE]
    ELSE [store |-> store, err |-> TRUE]

\* MockFriendRepository.CreateFriendRequest: Friends[docID] = friend
MockCreateFriendRequest(store, friend) ==
    [store |-> StoreSet(store, DocID(friend.Email, friend.FriendEmail), friend), err |-> FALSE]

\* DeleteFriendRequest that fails when the key is absent
MockDeleteFriendRequest_ErrIfAbsent(store, senderEmail, recipientEmail) ==
    IF DocID(senderEmail, recipientEmail) \in DOMAIN store
    THEN [store |-> StoreDelete(store, DocID(senderEmail, recipientEmail)), err |-> FALSE]
    ELSE [store |-> store, err |-> TRUE]

\* MockFriendRepository.DeleteFriendRequest: delete(Friends, docID), never an error
MockDeleteFriendRequest(store, senderEmail, recipientEmail) ==
    [store |-> StoreDelete(store, DocID(senderEmail, recipientEmail)), err |-> FALSE]

\* the FriendService method op run over the mock repository
MockServiceOp(op, store, userEmail, identifier) ==
    LET r == CASE op = "SendFriendRequest" -> ResolveForSend(identifier)
               [] op = "AcceptFriendRequest" -> ResolveForAccept(identifier)
               [] OTHER -> GetUserByUsername(identifier)
        party == r.user.Email
        Result(err, out) == [ret |-> err, store |-> out]
    IN  CASE r.err -> Result(ErrUserNotFound, store)
          [] ~r.err /\ op = "SendFriendRequest" ->
                 LET existing == MockGetFriendRequest(store, userEmail, party)
                     created == MockCreateFriendRequest(store, Friend(userEmail, party, "pending"))
                 IN  IF userEmail = party THEN Result(ErrSelfRequest, store)
                     ELSE IF ~existing.err /\ existing.found
                     THEN Result(ErrDuplicateRequest, store)
                     ELSE IF created.err THEN Result(ErrSendFailed, created.store)
                     ELSE Result(Nil, created.store)
          [] ~r.err /\ op = "AcceptFriendRequest" ->
                 LET existing == MockGetFriendRequest(store, party, userEmail)
                     updated == MockUpdateFriendRequest(store, party, userEmail, "accepted")
                 IN  IF existing.err \/ ~existing.found
                     THEN Result(ErrRequestNotFound, store)
                     ELSE IF updated.err THEN Result(ErrAcceptFailed, updated.store)
                     ELSE Result(Nil, updated.store)
          [] ~r.err /\ op = "RemoveFriend" ->
                 LET first == MockDeleteFriendRequest(store, userEmail, party)
                     second == MockDeleteFriendRequest(first.store, party, userEmail)
                 IN  IF first.err /\ second.err
                     THEN Result(ErrRemoveFailed, second.store)
                     ELSE Result(Nil, second.store)
          [] ~r.err /\ op = "DeclineFriendRequest" ->
                 LET deleted == MockDeleteFriendRequest(store, party, userEmail)
                 IN  IF deleted.err THEN Result(ErrDeclineFailed, deleted.store)
                     ELSE Result(Nil, deleted.store)
          [] ~r.err /\ op = "CancelFriendRequest" ->
                 LET deleted == MockDeleteFriendRequest(store, userEmail, party)
                 IN  IF deleted.err THEN Result(ErrCancelFailed, deleted.store)
                     ELSE Result(Nil, deleted.store)

----
\* the same calls over a store whose lookups can fail: Doc(id).Get returns
\* an error other than NotFound and GetFriendRequest returns (nil, err)

\* FriendService.SendFriendRequest when its GetFriendRequest call returns
\* lookupErr: the duplicate branch is taken only if err == nil and a request
\* was found, otherwise the method goes on to create the request
SendFriendRequestLookup(store, userEmail, identifier, lookupErr) ==
    LET r == ResolveForSend(identifier)
        friendEmail == r.user.Email
        existing == IF lookupErr
                    THEN [found |-> FALSE, friend |-> Friend(<<>>, <<>>, "")]
                    ELSE GetFriendRequest(store, userEmail, friendEmail)
    IN  IF r.err
        THEN [ret |-> ErrUserNotFound, store |-> store]
        ELSE IF userEmail = friendEmail
        THEN [ret |-> ErrSelfRequest, store |-> store]
        ELSE IF ~lookupErr /\ existing.found
        THEN [ret |-> ErrDuplicateRequest, store |-> store]
        ELSE [ret |-> Nil,
              store |-> CreateFriendRequest(store, Friend(userEmail, friendEmail, "pending"))]

\* a sendFriendRequest call whose lookup of the existing request fails
SendFriendRequestLookupFails(userEmail, identifier) ==
    LET out == SendFriendRequestLookup(friends, userEmail, identifier, TRUE)
    IN  /\ call = NoCall
        /\ Cardinality(DOMAIN out.store) <= MaxRecords
        /\ friends' = out.store
        /\ ret' = out.ret
        /\ call' = Call("SendFriendRequest", userEmail, identifier)
        /\ before' = Before(friends, userEmail, ResolveForSend(identifier))
        /\ UNCHANGED <<inflight, begun>>

NextFault ==
    \/ Next
    \/ \E userEmail \in UserEmails, identifier \in Identifiers :
           SendFriendRequestLookupFails(userEmail, identifier)

SpecFault == Init /\ [][NextFault]_vars

----
\* the same calls running side by side, one goroutine per request: every
\* call to the friend repository is one step, and the steps of different
\* requests interleave

Running(op, userEmail, party, pc) ==
    [op |-> op, userEmail |-> userEmail, party |-> party, pc |-> pc]

\* the calls that can be waiting for their next call to the friend repository
Calls ==
    {Running("SendFriendRequest", u, p, "create") : u \in UserEmails, p \in UserEmails}
    \cup {Running("AcceptFriendRequest", u, p, "update") : u \in UserEmails, p \in UserEmails}
    \cup {Running("RemoveFriend", u, p, "delete2") : u \in UserEmails, p \in UserEmails}

\* what the identifiers of a request resolve to, per way of resolving
SendTargets == {ResolveForSend(identifier) : identifier \in Identifiers}
AcceptTargets == {ResolveForAccept(identifier) : identifier \in Identifiers}
UsernameTargets == {GetUserByUsername(identifier) : identifier \in Identifiers}

TargetsOf(op) ==
    CASE op = "SendFriendRequest" -> SendTargets
      [] op = "AcceptFriendRequest" -> AcceptTargets
      [] OTHER -> UsernameTargets

\* A request arrives and its service method runs up to and including its
\* first call to the friend repository: the lookup of SendFriendRequest and
\* AcceptFriendRequest, the first delete of RemoveFriend, the delete of
\* DeclineFriendRequest and CancelFriendRequest. The steps before that call
\* read the users only; r is what the identifier resolved to. A method that
\* returns here has its response written; ret is the error of the call that
\* returned last.
ConcBegin(op, userEmail, r) ==
    LET party == r.user.Email
        Return(err, store) == [run |-> EmptyBag, ret |-> err, store |-> store]
        Continue(pc, store) ==
            [run |-> SetToBag({Running(op, userEmail, party, pc)}),
             ret |-> ret, store |-> store]
        out == CASE r.err -> Return(ErrUserNotFound, friends)
                 [] ~r.err /\ op = "SendFriendRequest" ->
                      IF userEmail = party
                      THEN Return(ErrSelfRequest, friends)
                      ELSE IF GetFriendRequest(friends, userEmail, party).found
                      THEN Return(ErrDuplicateRequest, friends)
                      ELSE Continue("create", friends)
                 [] ~r.err /\ op = "AcceptFriendRequest" ->
                      IF GetFriendRequest(friends, party, userEmail).found
                      THEN Continue("update", friends)
                      ELSE Return(ErrRequestNotFound, friends)
                 [] ~r.err /\ op = "RemoveFriend" ->
                      Continue("delete2", DeleteFriendRequest(friends, userEmail, party))
                 [] ~r.err /\ op = "DeclineFriendRequest" ->
                      Return(Nil, DeleteFriendRequest(friends, party, userEmail))
                 [] ~r.err /\ op = "CancelFriendRequest" ->
                      Return(Nil, DeleteFriendRequest(friends, userEmail, party))
    IN  /\ begun < MaxCalls
        /\ BagCardinality(inflight) < MaxInFlight
        /\ inflight' = inflight (+) out.run
        /\ friends' = out.store
        /\ ret' = out.ret
        /\ begun' = begun + 1
        /\ UNCHANGED <<call, before>>

\* FriendRepo.CreateFriendRequest in SendFriendRequest, and the return
ConcCreate(c) ==
    LET store == CreateFriendRequest(friends, Friend(c.userEmail, c.party, "pending"))
    IN  /\ BagIn(c, inflight)
        /\ c.pc = "create"
        /\ Cardinality(DOMAIN store) <= MaxRecords
        /\ friends' = store
        /\ ret' = Nil
        /\ inflight' = inflight (-) SetToBag({c})
        /\ UNCHANGED <<call, before, begun>>

\* FriendRepo.UpdateFriendRequest in AcceptFriendRequest, and the return
ConcUpdate(c) ==
    LET store == UpdateFriendRequest(friends, c.party, c.userEmail, "accepted")
    IN  /\ BagIn(c, inflight)
        /\ c.pc = "update"
        /\ Cardinality(DOMAIN store) <= MaxRecords
        /\ friends' = store
        /\ ret' = Nil
        /\ inflight' = inflight (-) SetToBag({c})
        /\ UNCHANGED <<call, before, begun>>

\* FriendRepo.DeleteFriendRequest: the second delete of RemoveFriend, and
\* the return
ConcDelete(c) ==
    /\ BagIn(c, inflight)
    /\ c.pc = "delete2"
    /\ friends' = DeleteFriendRequest(friends, c.party, c.userEmail)
    /\ ret' = Nil
    /\ inflight' = inflight (-) SetToBag({c})
    /\ UNCHANGED <<call, before, begun>>

NextConc ==
    \/ \E op \in Methods, userEmail \in UserEmails :
           \E r \in TargetsOf(op) : ConcBegin(op, userEmail, r)
    \/ \E c \in Calls :
           \/ ConcCreate(c)
           \/ ConcUpdate(c)
           \/ ConcDelete(c)

SpecConc == Init /\ [][NextConc]_vars

----
\* acceptFriendRequest by B naming A and cancelFriendRequest by A naming B
\* arrive together while the store holds the pending record (A,B): both have
\* resolved their identifier, neither has called the friend repository yet

Pairs == {p \in UserEmails \X UserEmails : p[1] # p[2]}

\* the store that holds the record of every pair of S with the status f gives it
StoreOf(S, f) ==
    [id \in {DocID(p[1], p[2]) : p \in S} |->
        LET p == CHOOSE q \in S : DocID(q[1], q[2]) = id
        IN  Friend(p[1], p[2], f[p])]

\* the stores the calls leave when they run one at a time
SequentialStores ==
    UNION {{StoreOf(S, f) : f \in [S -> {"pending", "accepted"}]} :
              S \in {T \in SUBSET Pairs : Cardinality(T) <= MaxRecords}}

\* the two calls of the race
RaceCalls ==
    {Running("AcceptFriendRequest", p[2], p[1], pc) : p \in Pairs, pc \in {"lookup", "update"}}
    \cup {Running("CancelFriendRequest", p[1], p[2], "delete") : p \in Pairs}

InitRace ==
    /\ \E p \in Pairs :
           /\ friends \in {store \in SequentialStores :
                              StatusOf(store, DocID(p[1], p[2])) = "pending"}
           /\ inflight = SetToBag({Running("AcceptFriendRequest", p[2], p[1], "lookup"),
                                   Running("CancelFriendRequest", p[1], p[2], "delete")})
    /\ begun = 2
    /\ call = NoCall
    /\ before = NoBefore
    /\ ret = Nil

\* FriendRepo.GetFriendRequest in AcceptFriendRequest, and the return when
\* the request is not found
ConcLookup(c) ==
    /\ BagIn(c, inflight)
    /\ c.pc = "lookup"
    /\ IF GetFriendRequest(friends, c.party, c.userEmail).found
       THEN /\ inflight' = (inflight (-) SetToBag({c})) (+) SetToBag({[c EXCEPT !.pc = "update"]})
            /\ ret' = ret
       ELSE /\ inflight' = inflight (-) SetToBag({c})
            /\ ret' = ErrRequestNotFound
    /\ UNCHANGED <<friends, call, before, begun>>

\* FriendRepo.DeleteFriendRequest in CancelFriendRequest, and the return
ConcCancel(c) ==
    /\ BagIn(c, inflight)
    /\ c.pc = "delete"
    /\ friends' = DeleteFriendRequest(friends, c.userEmail, c.party)
    /\ ret' = Nil
    /\ inflight' = inflight (-) SetToBag({c})
    /\ UNCHANGED <<call, before, begun>>

NextRace ==
    \E c \in RaceCalls :
        \/ ConcLookup(c)
        \/ ConcUpdate(c)
        \/ ConcCancel(c)

SpecRace == InitRace /\ [][NextRace]_vars

----
\* Properties

\* the identifier names user u: it is u's address, or u's handle in any case
Denotes(identifier, u) ==
    \/ identifier = u.Email
    \/ ToLower(identifier) = u.UsernameLower

\* the addresses of a list of profiles
EmailsOf(list) == {list[i].Email : i \in DOMAIN list}

\* the documents of the store before or after a step
TouchedIds == DOMAIN friends \cup DOMAIN friends'

\* C1: friendship is symmetric. Whenever the store holds an accepted record
\* (A,B), B is in getFriendsList(A) and A is in getFriendsList(B); so it is
\* right after B accepted the request A sent.
C1_FriendshipSymmetric ==
    /\ \A a \in UserEmails, b \in UserEmails :
           StatusOf(friends, DocID(a, b)) = "accepted"
           => /\ b \in EmailsOf(GetFriendsList(friends, a))
              /\ a \in EmailsOf(GetFriendsList(friends, b))
    /\ (call.op = "AcceptFriendRequest" /\ ret = Nil)
       => /\ before.party \in EmailsOf(GetFriendsList(friends, call.userEmail))
          /\ call.userEmail \in EmailsOf(GetFriendsList(friends, before.party))

C1_Witness ==
    /\ call.op = "AcceptFriendRequest"
    /\ ret = Nil
    /\ before.received = "pending"
    /\ StatusOf(friends, DocID(before.party, call.userEmail)) = "accepted"
    /\ call.userEmail \in EmailsOf(GetFriendsList(friends, before.party))

C4_SelfRequestRejected ==
    [][\A a \in Users :
          ( /\ call'.op = "SendFriendRequest"
            /\ call'.userEmail = a.Email
            /\ Denotes(call'.identifier, a) )
          => /\ ret' = ErrSelfRequest
             /\ friends' = friends
      ]_vars

C4_Witness ==
    /\ call.op = "SendFriendRequest"
    /\ ret = ErrSelfRequest
    /\ ~IsValidEmail(call.identifier)
    /\ GetUserByUsername(call.identifier).user.Email = call.userEmail

\* C5: acceptFriendRequest by B naming A when no record (A,B) exists fails
\* with the request-not-found error and leaves the store unchanged, also
\* when a record (B,A) exists.
C5_AcceptWithoutRequest ==
    [][\A a \in Users :
          ( /\ call'.op = "AcceptFriendRequest"
            /\ Denotes(call'.identifier, a)
            /\ DocID(a.Email, call'.userEmail) \notin DOMAIN friends )
          => /\ ret' = ErrRequestNotFound
             /\ friends' = friends
      ]_vars

C5_Witness ==
    /\ call.op = "AcceptFriendRequest"
    /\ ret = ErrRequestNotFound
    /\ before.received = "absent"
    /\ before.sent = "pending"
    /\ StatusOf(friends, DocID(call.userEmail, before.party)) = "pending"

C7_AcceptedDeletedOnlyByRemove ==
    [][\A id \in TouchedIds :
          (StatusOf(friends, id) = "accepted" /\ StatusOf(friends', id) = "absent")
          => call'.op = "RemoveFriend"
      ]_vars

\* C8: declineFriendRequest by B naming A on a pending record (A,B) deletes
\* it, and in the store it leaves sendFriendRequest by A naming B succeeds
\* and writes a pending record (A,B).
C8_DeclineThenResend ==
    ( /\ call.op = "DeclineFriendRequest"
      /\ ret = Nil
      /\ before.received = "pending" )
    => /\ DocID(before.party, call.userEmail) \notin DOMAIN friends
       /\ \A identifier \in Identifiers :
              Denotes(identifier, GetUserByEmail(call.userEmail).user)
              => LET out == SendFriendRequestOp(friends, before.party, identifier)
                 IN  /\ out.ret = Nil
                     /\ DocID(before.party, call.userEmail) \in DOMAIN out.store
                     /\ out.store[DocID(before.party, call.userEmail)]
                            = Friend(before.party, call.userEmail, "pending")

C8_Witness ==
    /\ call.op = "DeclineFriendRequest"
    /\ ret = Nil
    /\ before.received = "pending"
    /\ before.party # call.userEmail
    /\ SendFriendRequestOp(friends, before.party, call.userEmail).ret = Nil

\* C9: cancelFriendRequest by A naming B on a pending request A sent to B
\* deletes the record (A,B), and getPendingFriendRequests(B) does not list A.
C9_CancelRemovesPending ==
    \A b \in Users :
        ( /\ call.op = "CancelFriendRequest"
          /\ ret = Nil
          /\ Denotes(call.identifier, b)
          /\ before.sent = "pending" )
        => /\ DocID(call.userEmail, b.Email) \notin DOMAIN friends
           /\ call.userEmail \notin EmailsOf(GetPendingFriendRequests(friends, b.Email))

C9_Witness ==
    /\ call.op = "CancelFriendRequest"
    /\ ret = Nil
    /\ before.sent = "pending"
    /\ before.party # call.userEmail
    /\ call.userEmail \notin EmailsOf(GetPendingFriendRequests(friends, before.party))

\* C10: acceptFriendRequest by B naming A on a pending record (A,B) succeeds
\* and changes the status of that record to accepted and nothing else: the
\* store keeps the same documents, the record keeps requester A and
\* recipient B, and every other record is unchanged.
C10_AcceptInPlace ==
    [][\A a \in Users :
          ( /\ call'.op = "AcceptFriendRequest"
            /\ Denotes(call'.identifier, a)
            /\ StatusOf(friends, DocID(a.Email, call'.userEmail)) = "pending" )
          => /\ ret' = Nil
             /\ DOMAIN friends' = DOMAIN friends
             /\ friends'[DocID(a.Email, call'.userEmail)]
                    = Friend(a.Email, call'.userEmail, "accepted")
             /\ \A id \in DOMAIN friends \ {DocID(a.Email, call'.userEmail)} :
                    friends'[id] = friends[id]
      ]_vars

C10_Witness ==
    /\ call.op = "AcceptFriendRequest"
    /\ ret = Nil
    /\ before.received = "pending"
    /\ Cardinality(DOMAIN friends) > 1
    /\ friends[DocID(before.party, call.userEmail)]
           = Friend(before.party, call.userEmail, "accepted")

\* C11: every call that takes a target identifier gives the same result and
\* the same store whether the target is named by address or by handle.
C11_AddressOrHandle ==
    \A userEmail \in UserEmails, t \in Users :
        /\ SendFriendRequestOp(friends, userEmail, t.Email)
               = SendFriendRequestOp(friends, userEmail, t.UsernameLower)
        /\ AcceptFriendRequestOp(friends, userEmail, t.Email)
               = AcceptFriendRequestOp(friends, userEmail, t.UsernameLower)
        /\ RemoveFriendOp(friends, userEmail, t.Email)
               = RemoveFriendOp(friends, userEmail, t.UsernameLower)
        /\ DeclineFriendRequestOp(friends, userEmail, t.Email)
               = DeclineFriendRequestOp(friends, userEmail, t.UsernameLower)
        /\ CancelFriendRequestOp(friends, userEmail, t.Email)
               = CancelFriendRequestOp(friends, userEmail, t.UsernameLower)

\* C12: no stored record has its requester equal to its recipient, and no
\* document is keyed by a pair (A,A).
C12_NoSelfRecord ==
    /\ \A id \in DOMAIN friends : friends[id].Email # friends[id].FriendEmail
    /\ \A a \in UserEmails : DocID(a, a) \notin DOMAIN friends

C12_Witness ==
    /\ call.op = "SendFriendRequest"
    /\ ret = ErrSelfRequest
    /\ IsValidEmail(call.identifier)
    /\ Cardinality(DOMAIN friends) = MaxRecords
    /\ \A id \in DOMAIN friends : friends[id].Email # friends[id].FriendEmail

\* C14: getPendingFriendRequests(X) lists exactly the requesters of the
\* pending records whose recipient is X, each once; right after X accepted a
\* request, its requester is no longer listed.
C14_PendingExact ==
    /\ \A x \in UserEmails :
           LET list == GetPendingFriendRequests(friends, x)
               requesters == {a \in UserEmails : StatusOf(friends, DocID(a, x)) = "pending"}
           IN  /\ EmailsOf(list) = requesters
               /\ Len(list) = Cardinality(requesters)
    /\ (call.op = "AcceptFriendRequest" /\ ret = Nil)
       => before.party \notin EmailsOf(GetPendingFriendRequests(friends, call.userEmail))

C14_Witness ==
    /\ call.op = "AcceptFriendRequest"
    /\ ret = Nil
    /\ before.received = "pending"
    /\ before.sent = "pending"
    /\ Len(GetPendingFriendRequests(friends, call.userEmail)) = 1
    /\ before.party \notin EmailsOf(GetPendingFriendRequests(friends, call.userEmail))

\* C15: getFriendsList(X) holds exactly the other party of each accepted
\* record in which X is requester or recipient, one entry per record; X
\* itself is never in it, nor the other party of a record that is pending.
C15_FriendsExact ==
    \A x \in UserEmails :
        LET list == GetFriendsList(friends, x)
            accepted == {id \in DOMAIN friends :
                            /\ friends[id].Status = "accepted"
                            /\ x \in {friends[id].Email, friends[id].FriendEmail}}
            others == {y \in UserEmails :
                          \/ StatusOf(friends, DocID(x, y)) = "accepted"
                          \/ StatusOf(friends, DocID(y, x)) = "accepted"}
        IN  /\ EmailsOf(list) = others
            /\ Len(list) = Cardinality(accepted)
            /\ x \notin EmailsOf(list)
            /\ \A i \in DOMAIN list : list[i] \in Users

C15_Witness ==
    \E x \in UserEmails, y \in UserEmails, z \in UserEmails :
        /\ StatusOf(friends, DocID(x, y)) = "accepted"
        /\ StatusOf(friends, DocID(z, x)) = "accepted"
        /\ StatusOf(friends, DocID(y, x)) = "pending"
        /\ EmailsOf(GetFriendsList(friends, x)) = {y, z}
        /\ EmailsOf(GetFriendsList(friends, z)) = {x}

\* C16: removeFriend succeeds when at least one of the records (acting,
\* target) and (target, acting) existed before the call, and fails when
\* neither did.
C16_RemoveResult ==
    (call.op = "RemoveFriend" /\ ~GetUserByUsername(call.identifier).err)
    => (ret = Nil <=> (before.sent # "absent" \/ before.received # "absent"))

\* C17: every friend handler answers UserNotFound and RequestNotFound with
\* 404, a self request or a duplicate request with 400, and a store failure
\* with 500.
C17_StatusCodes ==
    /\ call # NoCall
       => /\ ret \in {ErrUserNotFound, ErrRequestNotFound}
             => HTTPStatus(call.op, ret) = StatusNotFound
          /\ ret \in {ErrSelfRequest, ErrDuplicateRequest}
             => HTTPStatus(call.op, ret) = StatusBadRequest
    /\ \A op \in Methods : HTTPStatus(op, StoreFailureOf(op)) = StatusInternalServerError

\* C19: declineFriendRequest and cancelFriendRequest are idempotent. When
\* the record they aim at does not exist they return no error and leave the
\* store as it is, and the same call made again on the store they leave
\* returns no error and leaves that store as it is.
C19_DeclineCancelIdempotent ==
    [][( /\ call'.op \in {"DeclineFriendRequest", "CancelFriendRequest"}
         /\ ~GetUserByUsername(call'.identifier).err )
       => LET decline == call'.op = "DeclineFriendRequest"
              t == GetUserByUsername(call'.identifier).user.Email
              id == IF decline THEN DocID(t, call'.userEmail) ELSE DocID(call'.userEmail, t)
              again == IF decline
                       THEN DeclineFriendRequestOp(friends', call'.userEmail, call'.identifier)
                       ELSE CancelFriendRequestOp(friends', call'.userEmail, call'.identifier)
          IN  /\ id \notin DOMAIN friends => (ret' = Nil /\ friends' = friends)
              /\ ret' = Nil
              /\ again.ret = Nil
              /\ again.store = friends'
      ]_vars

C19_Witness ==
    /\ call.op = "DeclineFriendRequest"
    /\ ret = Nil
    /\ before.party # <<>>
    /\ before.received = "absent"
    /\ before.sent = "pending"
    /\ StatusOf(friends, DocID(call.userEmail, before.party)) = "pending"

\* the two users of the scenario and the store after its first two steps
Alice == UserOf(1)
Bob == UserOf(2)
AlicePendingBob == DocID(Alice.Email, Bob.Email) :> Friend(Alice.Email, Bob.Email, "pending")
AliceAcceptedBob == DocID(Alice.Email, Bob.Email) :> Friend(Alice.Email, Bob.Email, "accepted")

\* C20: from the empty store, with every target given by handle:
\* sendFriendRequest(alice, "bob") leaves exactly the pending record
\* (alice,bob); acceptFriendRequest(bob, "alice") on that store makes it
\* accepted; getFriendsList(alice) is then [bob]; removeFriend(alice, "bob")
\* on that store leaves no record.
C20_Scenario ==
    [][/\ (friends = <<>> /\ call' = Call("SendFriendRequest", Alice.Email, Bob.UsernameLower))
          => (ret' = Nil /\ friends' = AlicePendingBob)
       /\ (friends = AlicePendingBob
           /\ call' = Call("AcceptFriendRequest", Bob.Email, Alice.UsernameLower))
          => (ret' = Nil /\ friends' = AliceAcceptedBob)
       /\ friends' = AliceAcceptedBob
          => GetFriendsList(friends', Alice.Email) = <<Bob>>
       /\ (friends = AliceAcceptedBob
           /\ call' = Call("RemoveFriend", Alice.Email, Bob.UsernameLower))
          => (ret' = Nil /\ friends' = <<>>)
      ]_vars

C20_Witness ==
    /\ call = Call("RemoveFriend", Alice.Email, Bob.UsernameLower)
    /\ ret = Nil
    /\ before.sent = "accepted"
    /\ before.received = "absent"
    /\ friends = <<>>


\* the documents of the store that record the ordered pair (a, b)
RecordsOf(store, a, b) ==
    {id \in DOMAIN store : store[id].Email = a /\ store[id].FriendEmail = b}

\* C13: at any time the store holds at most one record per ordered pair
\* (requester, recipient), also when calls interleave; a create on a key
\* that already exists returns no error, adds no document and leaves the
\* created record under that key.
C13_OneRecordPerPair ==
    [][/\ \A a \in UserEmails, b \in UserEmails :
              Cardinality(RecordsOf(friends', a, b)) <= 1
       /\ \A c \in BagToSet(inflight) :
              LET id == DocID(c.userEmail, c.party)
              IN  ( /\ c.pc = "create"
                    /\ inflight' = inflight (-) SetToBag({c})
                    /\ id \in DOMAIN friends )
                  => /\ ret' = Nil
                     /\ DOMAIN friends' = DOMAIN friends
                     /\ friends'[id] = Friend(c.userEmail, c.party, "pending")
      ]_vars

\* two sendFriendRequest(a, b) calls have both looked the pair up and found
\* nothing; one has created the record and the other is about to
C13_Witness ==
    \E a \in UserEmails, b \in UserEmails :
        /\ inflight = SetToBag({Running("SendFriendRequest", a, b, "create")})
        /\ begun = 2
        /\ ret = Nil
        /\ DOMAIN friends = {DocID(a, b)}
        /\ friends[DocID(a, b)] = Friend(a, b, "pending")

\* C18: the store's update of an ordered pair that has no record returns a
\* not-found error and writes nothing; it never creates a document.
C18_UpdateAbsentFails ==
    [][\A c \in BagToSet(inflight) :
           ( /\ c.pc = "update"
             /\ inflight' = inflight (-) SetToBag({c})
             /\ DocID(c.party, c.userEmail) \notin DOMAIN friends )
           => (ret' # Nil /\ friends' = friends)
      ]_vars

\* C21: the send, accept and decline handlers, called by an authenticated
\* user with a body that names another existing user's handle under the key
\* "username", answer 200 with the success message and apply the transition:
\* the record is created pending, its status is set to accepted, it is deleted.
C21_UsernameKey ==
    \A userEmail \in UserEmails, t \in Users :
        t.Email # userEmail =>
            LET body == Body("username", t.UsernameLower)
                sent == DocID(userEmail, t.Email)
                received == DocID(t.Email, userEmail)
                send == Handle("SendFriendRequest", friends, userEmail, body)
                accept == Handle("AcceptFriendRequest", friends, userEmail, body)
                decline == Handle("DeclineFriendRequest", friends, userEmail, body)
            IN  /\ sent \notin DOMAIN friends
                   => /\ send.status = StatusOK
                      /\ send.message = "Friend request sent"
                      /\ StatusOf(send.store, sent) = "pending"
                /\ StatusOf(friends, received) = "pending"
                   => /\ accept.status = StatusOK
                      /\ accept.message = "Friend request accepted"
                      /\ StatusOf(accept.store, received) = "accepted"
                      /\ decline.status = StatusOK
                      /\ decline.message = "Friend request declined"
                      /\ received \notin DOMAIN decline.store


Changed(id) ==
    \/ (id \in DOMAIN friends) # (id \in DOMAIN friends')
    \/ id \in DOMAIN friends /\ id \in DOMAIN friends' /\ friends[id] # friends'[id]

\* C27: a call with acting identity X creates, updates or deletes only
\* records in which X is the requester or the recipient; every record
\* between two other identities is left as it was, whatever the identifier.
C27_FrameOfActing ==
    [][\A id \in TouchedIds :
          Changed(id)
          => /\ call' # NoCall
             /\ \E y \in UserEmails :
                    id \in {DocID(call'.userEmail, y), DocID(y, call'.userEmail)}
      ]_vars

C27_Witness ==
    /\ call.op = "RemoveFriend"
    /\ ret = Nil
    /\ before.sent = "accepted"
    /\ before.received = "pending"
    /\ \E id \in DOMAIN friends :
           /\ call.userEmail \notin {friends[id].Email, friends[id].FriendEmail}
           /\ before.party \in {friends[id].Email, friends[id].FriendEmail}

\* C28: getFriendsList(X) holds each other identity at most once.
C28_NoFriendTwice ==
    \A x \in UserEmails :
        LET list == GetFriendsList(friends, x)
        IN  \A i \in DOMAIN list, j \in DOMAIN list : list[i] = list[j] => i = j

\* C29: only the recipient can accept. A pending record (A,B) becomes
\* accepted only in acceptFriendRequest by B naming A; no call by A and no
\* call by a third identity sets its status to accepted.
C29_OnlyRecipientAccepts ==
    [][\A a \in UserEmails, b \in UserEmails :
          ( /\ StatusOf(friends, DocID(a, b)) = "pending"
            /\ StatusOf(friends', DocID(a, b)) = "accepted" )
          => /\ call'.op = "AcceptFriendRequest"
             /\ call'.userEmail = b
             /\ \E u \in Users : u.Email = a /\ Denotes(call'.identifier, u)
      ]_vars

C29_Witness ==
    /\ call.op = "AcceptFriendRequest"
    /\ ret = ErrRequestNotFound
    /\ before.party \in UserEmails \ {call.userEmail}
    /\ before.sent = "pending"
    /\ before.received = "absent"
    /\ StatusOf(friends, DocID(call.userEmail, before.party)) = "pending"


\* C25: when the lookup of sendFriendRequest's duplicate check fails with a
\* retrieval error, the call returns an error and writes nothing, whatever
\* the store holds; in particular an accepted record (A,B) is not replaced
\* by a pending one.
C25_LookupErrorSurfaced ==
    \A userEmail \in UserEmails, t \in Users :
        t.Email # userEmail =>
            LET out == SendFriendRequestLookup(friends, userEmail, t.UsernameLower, TRUE)
            IN  /\ out.ret # Nil
                /\ out.store = friends
                /\ StatusOf(friends, DocID(userEmail, t.Email)) = "accepted"
                   => StatusOf(out.store, DocID(userEmail, t.Email)) = "accepted"


\* the document a call of the race works on: the request (A,B)
RaceKey(c) ==
    IF c.op = "AcceptFriendRequest"
    THEN DocID(c.party, c.userEmail)
    ELSE DocID(c.userEmail, c.party)

\* the request of the race once it is accepted
RaceAccepted(c) ==
    IF c.op = "AcceptFriendRequest"
    THEN Friend(c.party, c.userEmail, "accepted")
    ELSE Friend(c.userEmail, c.party, "accepted")

\* C22: acceptFriendRequest(B,A) and cancelFriendRequest(A,B) run together
\* on a pending record (A,B), their store calls interleaved in any order. No
\* step changes a document other than (A,B), and once both calls have
\* returned the key (A,B) holds no record or the complete record with
\* requester A, recipient B and status accepted.
C22_AcceptCancelRace ==
    [][\A c \in BagToSet(inflight) :
          /\ \A id \in TouchedIds : Changed(id) => id = RaceKey(c)
          /\ inflight' = EmptyBag
             => \/ RaceKey(c) \notin DOMAIN friends'
                \/ friends'[RaceKey(c)] = RaceAccepted(c)
      ]_vars

\* C23: under any interleaving of the store calls of concurrent calls, a
\* record that is accepted is not pending after a step; it stays accepted
\* until a step deletes it.
C23_AcceptedNotPendingAgain ==
    [][\A id \in DOMAIN friends :
          (friends[id].Status = "accepted" /\ id \in DOMAIN friends')
          => friends'[id].Status # "pending"
      ]_vars

\* C26: in every state reached by interleaved concurrent calls, every stored
\* record has status pending or accepted, and its requester and recipient
\* are the ordered pair of its key.
C26_RecordsWellFormed ==
    \A id \in DOMAIN friends :
        /\ friends[id].Status \in {"pending", "accepted"}
        /\ id = DocID(friends[id].Email, friends[id].FriendEmail)
        /\ friends[id].Email \in UserEmails
        /\ friends[id].FriendEmail \in UserEmails

\* the stores of the sequential calls are the stores the race starts from
SequentialStoresReached == friends \in SequentialStores


====
